---------------------------- MODULE Spec2Model ----------------------------
(***************************************************************************)
(* docylit: a browser document editor with debounced autosave to           *)
(* localStorage and an AI writing assistant (src/App.tsx,                  *)
(* src/services/geminiService.ts).                                         *)
(*                                                                         *)
(* Spec        the App component: editor, title, autosave, AI modal.       *)
(* SpecLive    Spec with the browser's clock and timers fair.              *)
(* SpecQuota   Spec plus localStorage.setItem throwing.                    *)
(* SpecGen     one direct call of generateWritingAssistance.               *)
(* SpecStream  one direct call of streamWritingAssistance.                 *)
(* SpecStats   the load of a stored document of any text.                  *)
(*                                                                         *)
(* A JavaScript value of type (string | null) is a sequence of length at   *)
(* most one: << >> is null, <<s>> is the string s.                         *)
(***************************************************************************)
EXTENDS Integers, Sequences, FiniteSets, TLC

\* ------------------------------------------------------------------ bounds
\* edits the history counts in one burst, or in one run of spaced edits
MaxEdits == 2
\* calls of handleInput and of handleAiRequest per behaviour
MaxEvents == 3
\* milliseconds that pass in one step of the clock
TickStep == 500
\* chunks the backend yields in one stream
MaxChunks == 2
\* characters of a stored document's text
MaxTextLen == 4

\* --------------------------------------------------------------- constants
\* setTimeout(..., 1000) in handleInput
Delay == 1000

Null == << >>
Some(s) == <<s>>
\* JavaScript truthiness of a (string | null): neither null nor ""
Truthy(o) == o # Null /\ o[1] # ""
\* a || b on strings
OrElse(a, b) == IF a # "" THEN a ELSE b

Min(a, b) == IF a <= b THEN a ELSE b

DefaultTitle == "Untitled document"
EmptyParagraph == "<p><br></p>"

\* values the user gives the title field
Titles == {"T", ""}
\* markup the editing surface holds after the user typed
TypedHTML == {"<p>a</p>", "<p>a b</p>"}
\* what the user types into the prompt field
Prompts == {"", "p"}
\* window.getSelection().toString(): the prompt field has the focus and
\* nothing of the document is selected
Selections == {""}
\* response.text of the backend (undefined is "")
BackendTexts == {"", "r"}
\* chunk.text of a chunk of the stream
ChunkTexts == {"", "a", "b"}
\* the context argument of a direct call of the client
Contexts == {"", "x"}
Modes == {"continue", "summarize", "fix", "tone", "custom"}

\* ------------------------------------------------------- editing surface
\* innerText of the markup: the text between <p> and </p>; <br> is a newline
InnerText(html) ==
    IF html = EmptyParagraph THEN "\n"
    ELSE IF Len(html) >= 7 /\ SubSeq(html, 1, 3) = "<p>"
         THEN SubSeq(html, 4, Len(html) - 4)
         ELSE html

\* document.execCommand('insertText', false, text) with the caret at the end
InsertText(html, text) ==
    IF html = EmptyParagraph THEN "<p>" \o text \o "</p>"
    ELSE IF Len(html) >= 7 /\ SubSeq(html, 1, 3) = "<p>"
         THEN SubSeq(html, 1, Len(html) - 4) \o text \o "</p>"
         ELSE html \o text

\* ------------------------------------------------------------- statistics
IsWhitespace(c) == c \in {" ", "\n", "\t"}

RECURSIVE TrimStart(_)
TrimStart(s) ==
    IF s = "" THEN ""
    ELSE IF IsWhitespace(SubSeq(s, 1, 1)) THEN TrimStart(SubSeq(s, 2, Len(s)))
    ELSE s

RECURSIVE TrimEnd(_)
TrimEnd(s) ==
    IF s = "" THEN ""
    ELSE IF IsWhitespace(SubSeq(s, Len(s), Len(s)))
         THEN TrimEnd(SubSeq(s, 1, Len(s) - 1))
    ELSE s

\* String.prototype.trim
Trim(s) == TrimEnd(TrimStart(s))

\* s.split(/\s+/): the piece before the first run of whitespace, then the
\* pieces of what follows that run
RECURSIVE SplitWs(_)
SplitWs(s) ==
    LET ws == {i \in 1..Len(s) : IsWhitespace(SubSeq(s, i, i))}
    IN IF ws = {} THEN <<s>>
       ELSE LET first == CHOOSE i \in ws : \A j \in ws : i <= j
                last == CHOOSE j \in first..Len(s) :
                            /\ \A k \in first..j : k \in ws
                            /\ j = Len(s) \/ (j + 1) \notin ws
            IN <<SubSeq(s, 1, first - 1)>> \o SplitWs(SubSeq(s, last + 1, Len(s)))

Split(s) == SplitWs(s)

\* (mutant) the text is split as it is, not trimmed
ComputeStatsNoTrim(text) ==
    [words |-> IF text = "" THEN 0 ELSE Len(Split(text)),
     chars |-> Len(text)]

\* updateStats: the value given to setStats
ComputeStats(text) ==
    [words |-> IF Trim(text) = "" THEN 0 ELSE Len(Split(Trim(text))),
     chars |-> Len(text)]


\* ------------------------------------------------- geminiService.ts: client
ApologySentinel == "Sorry, I encountered an error while processing your request."
StreamErrorSentinel == "[Error: Failed to generate content]"
Preamble == "You are a helpful writing assistant integrated into a document editor. "
StreamInstruction == "You are an intelligent writing assistant. Return raw text or simple HTML suitable for a contentEditable div."

\* process.env.API_KEY: "" stands for an unset or empty variable
ApiKeys == {"", "k"}

\* getAI: throws when the key is missing
GetAIThrows(key) == key = ""

ModeInstruction(mode) ==
    CASE mode = "continue" ->
           "Continue the text naturally based on the provided context. Keep formatting simple (HTML/Markdown)."
      [] mode = "summarize" -> "Provide a concise summary of the provided text."
      [] mode = "fix" ->
           "Fix grammar and spelling errors in the provided text without changing the meaning."
      [] mode = "tone" -> "Rewrite the text to be more professional and concise."
      [] mode = "custom" ->
           "Follow the user's specific instructions for the provided text."
      [] OTHER -> ""

\* the argument of ai.models.generateContent
GenerateContentRequest(prompt, context, mode) ==
    [model |-> "gemini-2.5-flash",
     contents |-> "Context/Current Text: \"" \o context \o "\"\n\nTask: " \o prompt,
     systemInstruction |-> Preamble \o ModeInstruction(mode),
     temperature |-> "0.7"]

\* the argument of ai.models.generateContentStream
GenerateContentStreamRequest(prompt, context) ==
    [model |-> "gemini-2.5-flash",
     contents |-> "Context: \"" \o context \o "\"\n\nInstruction: " \o prompt,
     systemInstruction |-> StreamInstruction]

\* (mutant) the error goes to the caller
GenerateRethrow(error) == [status |-> "raised", value |-> error]

\* the catch block of generateWritingAssistance: how the call ends on an error
GenerateCatch(error) == [status |-> "returned", value |-> ApologySentinel]

\* return response.text || ""
GenerateReturn(text) == [status |-> "returned", value |-> OrElse(text, "")]

\* generateWritingAssistance up to its await: either it already ended in the
\* catch block (getAI threw, nothing was sent) or a request is with the backend
GenerateStart(prompt, context, mode, key) ==
    IF GetAIThrows(key)
    THEN [outcome |-> GenerateCatch("API Key not found"), request |-> Null]
    ELSE [outcome |-> [status |-> "awaiting", value |-> ""],
          request |-> Some(GenerateContentRequest(prompt, context, mode))]

\* ---------------------------------------------------------------- state
VARIABLES
    \* App.tsx, React state and refs of the component
    title,           \* useState('Untitled document')
    lastSaved,       \* Date | null: 0 is null, 1 and 2 are dates; the component
                     \* never reads it, a new date is one that differs from the last
    isSaving,        \* the "Saving..." indicator
    showAiModal,
    stats,           \* {words, chars}
    editorHTML,      \* editorRef.current.innerHTML
    saveTimeoutRef,  \* saveTimeoutRef.current: id of the last timeout, 0 is null
    aiPrompt,
    aiLoading,
    aiResponse,      \* string | null
    \* the browser
    localStorage,    \* [content, title], each string | null
    timeouts,        \* outstanding setTimeout callbacks: [id, remaining, title]
    sinceLast,       \* ms since the last handleInput, Delay + 1 when more
    calls,           \* handleAiRequest activations awaiting the backend, oldest
                     \* first: [mode, aiPrompt, context, request]
    apiKey,          \* process.env.API_KEY
    \* history
    events,          \* calls of handleInput and of handleAiRequest so far
    rejected,        \* a call of handleAiRequest returned at its guard
    hist,            \* edits and writes of the content key, per burst and per run
    \* direct calls of the client
    gen,             \* one call of generateWritingAssistance
    stream           \* one call of streamWritingAssistance

appVars == <<title, lastSaved, isSaving, showAiModal, stats, editorHTML,
             saveTimeoutRef, aiPrompt, aiLoading, aiResponse, localStorage,
             timeouts, sinceLast, calls, events, rejected, hist>>
vars == <<appVars, apiKey, gen, stream>>

saveVars == <<lastSaved, isSaving, saveTimeoutRef, timeouts>>
aiVars == <<showAiModal, aiPrompt, aiLoading, aiResponse, calls, rejected>>
\* what the handlers of the assistance session leave alone
docVars == <<title, saveVars, stats, editorHTML, localStorage, sinceLast, hist>>
envVars == <<apiKey, gen, stream>>

\* gen: the arguments, where the call stands (idle, awaiting, returned,
\* raised), the value it returned or raised, the requests the backend got,
\* and whether the backend call threw
GenIdle == [status |-> "idle", value |-> "", prompt |-> "", context |-> "",
            mode |-> "continue", backend |-> << >>, threw |-> FALSE]
\* stream: the arguments, where the call stands (idle, opening, streaming,
\* done, raised), the requests the backend got, the chunk texts it yielded,
\* the arguments onChunk was called with, and whether the stream threw
StreamIdle == [status |-> "idle", prompt |-> "", context |-> "",
               backend |-> << >>, received |-> << >>, onChunk |-> << >>,
               threw |-> FALSE]

NoHist == [n |-> 0, writes |-> 0, html |-> "", run |-> 0, runWrites |-> 0]

\* ------------------------------------------------------------ App: mount
\* The component after its first render and its two effects: the load effect
\* reads the store, the title effect writes the title of each render.
MountedTitle(store) == IF Truthy(store.title) THEN store.title[1] ELSE DefaultTitle

MountedHTML(store) == IF Truthy(store.content) THEN store.content[1] ELSE EmptyParagraph

Mount(store) ==
    /\ title' = MountedTitle(store)
    /\ lastSaved' = 0
    /\ isSaving' = FALSE
    /\ showAiModal' = FALSE
    /\ editorHTML' = MountedHTML(store)
    /\ stats' = ComputeStats(InnerText(MountedHTML(store)))
    /\ saveTimeoutRef' = 0
    /\ aiPrompt' = ""
    /\ aiLoading' = FALSE
    /\ aiResponse' = Null
    /\ localStorage' = [store EXCEPT !.title = Some(MountedTitle(store))]
    /\ timeouts' = {}
    /\ calls' = << >>
    /\ hist' = NoHist

EmptyStore == [content |-> Null, title |-> Null]

InitApp ==
    /\ title = MountedTitle(EmptyStore)
    /\ lastSaved = 0
    /\ isSaving = FALSE
    /\ showAiModal = FALSE
    /\ editorHTML = MountedHTML(EmptyStore)
    /\ stats = ComputeStats(InnerText(MountedHTML(EmptyStore)))
    /\ saveTimeoutRef = 0
    /\ aiPrompt = ""
    /\ aiLoading = FALSE
    /\ aiResponse = Null
    /\ localStorage = [EmptyStore EXCEPT !.title = Some(MountedTitle(EmptyStore))]
    /\ timeouts = {}
    /\ calls = << >>
    /\ hist = NoHist
    /\ sinceLast = Delay + 1
    /\ events = 0
    /\ rejected = FALSE

Init ==
    /\ InitApp
    /\ apiKey \in ApiKeys
    /\ gen = GenIdle
    /\ stream = StreamIdle

\* the page is loaded again: timers and pending promises of the old page die
Reload ==
    /\ Mount(localStorage)
    /\ UNCHANGED <<sinceLast, events, rejected, envVars>>

\* ------------------------------------------------------- App: autosave
\* (mutant) the previous timeout is left outstanding
NoClearTimeout(ts, ref) == ts

\* clearTimeout(saveTimeoutRef.current) when the ref is set
ClearTimeout(ts, ref) == {t \in ts : t.id # ref}

\* (mutant) the timeout is set for twice the delay
SetTimeoutLate(ts, id, capturedTitle) ==
    ts \cup {[id |-> id, remaining |-> 2 * Delay, title |-> capturedTitle]}

\* setTimeout(callback, 1000); the callback closes over the title of the
\* render in which handleInput ran
SetTimeout(ts, id, capturedTitle) ==
    ts \cup {[id |-> id, remaining |-> Delay, title |-> capturedTitle]}

\* a date later than the last one recorded
NewDate(last) == IF last = 1 THEN 2 ELSE 1

\* the id setTimeout returns: one no outstanding timeout has
NewTimeoutId(ts) == CHOOSE i \in 1..(Cardinality(ts) + 1) : \A t \in ts : t.id # i

\* history: an edit arrives gap ms after the previous one.  n counts the edits
\* of the burst (each less than Delay after the one before) and writes the
\* writes of the content key since the burst began, html is the markup at
\* the last edit of the burst; run counts the latest
\* edits that each came more than Delay after the one before, and runWrites
\* the writes since the first of them.  Both counts stop at MaxEdits: n
\* saturates, run forgets its oldest edit and the write that followed it.
HistInput(h, gap, html) ==
    [n |-> IF gap > Delay THEN 1
           ELSE IF gap < Delay /\ h.n >= 1 THEN Min(h.n + 1, MaxEdits) ELSE 0,
     writes |-> IF gap < Delay /\ h.n >= 1 THEN h.writes ELSE 0,
     html |-> IF gap > Delay \/ (gap < Delay /\ h.n >= 1) THEN html ELSE "",
     run |-> IF gap > Delay THEN Min(h.run + 1, MaxEdits) ELSE 0,
     runWrites |-> IF gap > Delay
                   THEN IF h.run = MaxEdits /\ h.runWrites > 0
                        THEN h.runWrites - 1 ELSE h.runWrites
                   ELSE 0]

\* history: the content key was written
HistWrite(h) ==
    [h EXCEPT !.writes = IF h.n >= 1 THEN Min(@ + 1, MaxEdits) ELSE 0,
              !.runWrites = IF h.run >= 1 THEN Min(@ + 1, MaxEdits + 1) ELSE 0]

\* handleInput, after the editing surface took the change to html
HandleInput(html) ==
    /\ events < MaxEvents
    /\ events' = events + 1
    /\ editorHTML' = html
    /\ stats' = ComputeStats(InnerText(html))
    /\ isSaving' = TRUE
    /\ LET cleared == ClearTimeout(timeouts, saveTimeoutRef)
       IN /\ timeouts' = SetTimeout(cleared, NewTimeoutId(cleared), title)
          /\ saveTimeoutRef' = NewTimeoutId(cleared)
    /\ sinceLast' = 0
    /\ hist' = HistInput(hist, sinceLast, html)

\* onInput of the editing surface: the user typed
EditorInput ==
    \E html \in TypedHTML :
        /\ HandleInput(html)
        /\ UNCHANGED <<title, lastSaved, localStorage, aiVars, envVars>>

\* what execCommand(command) leaves in the editing surface: the surface is
\* an opaque capability, a command it cannot apply changes nothing
ExecCommand(html) == {html} \cup TypedHTML

\* format: a toolbar button
Format ==
    \E html \in ExecCommand(editorHTML) :
        /\ HandleInput(html)
        /\ UNCHANGED <<title, lastSaved, localStorage, aiVars, envVars>>

\* (mutant) the callback catches the error of setItem and goes on
SaveCallbackSwallows(t, failAt) ==
    [localStorage |->
        CASE failAt = "content" -> localStorage
          [] failAt = "title" -> [localStorage EXCEPT !.content = Some(editorHTML)]
          [] OTHER -> [content |-> Some(editorHTML), title |-> Some(t.title)],
     lastSaved |-> NewDate(lastSaved),
     isSaving |-> FALSE,
     wrote |-> failAt # "content"]

\* (mutant) the callback does not call setIsSaving(false)
SaveCallbackStaysSaving(t, failAt) ==
    [localStorage |->
        CASE failAt = "content" -> localStorage
          [] failAt = "title" -> [localStorage EXCEPT !.content = Some(editorHTML)]
          [] OTHER -> [content |-> Some(editorHTML), title |-> Some(t.title)],
     lastSaved |-> IF failAt = "none" THEN NewDate(lastSaved) ELSE lastSaved,
     isSaving |-> isSaving,
     wrote |-> failAt # "content"]

\* the callback of setTimeout in handleInput; failAt names the setItem that
\* throws ("none" when the store takes both writes)
SaveCallback(t, failAt) ==
    [localStorage |->
        CASE failAt = "content" -> localStorage
          [] failAt = "title" -> [localStorage EXCEPT !.content = Some(editorHTML)]
          [] OTHER -> [content |-> Some(editorHTML), title |-> Some(t.title)],
     lastSaved |-> IF failAt = "none" THEN NewDate(lastSaved) ELSE lastSaved,
     isSaving |-> IF failAt = "none" THEN FALSE ELSE isSaving,
     wrote |-> failAt # "content"]

TimerStep(t, failAt) ==
    /\ t \in timeouts
    /\ t.remaining = 0
    /\ LET r == SaveCallback(t, failAt)
       IN /\ localStorage' = r.localStorage
          /\ lastSaved' = r.lastSaved
          /\ isSaving' = r.isSaving
          /\ hist' = IF r.wrote THEN HistWrite(hist) ELSE hist
    /\ timeouts' = timeouts \ {t}
    /\ UNCHANGED <<title, stats, editorHTML, saveTimeoutRef, sinceLast, events,
                   aiVars, envVars>>

\* the debounce timer fires and the store takes the writes
TimerFires == \E t \in timeouts : TimerStep(t, "none")

\* the debounce timer fires and localStorage.setItem throws
TimerFiresThrows == \E t \in timeouts : \E failAt \in {"content", "title"} : TimerStep(t, failAt)

\* time passes, up to the next timer's deadline
Tick ==
    /\ \A t \in timeouts : t.remaining > 0
    /\ LET d == IF timeouts = {} THEN TickStep
                ELSE Min(TickStep, CHOOSE r \in {t.remaining : t \in timeouts} :
                                     \A t \in timeouts : r <= t.remaining)
       IN /\ timeouts' = {[t EXCEPT !.remaining = @ - d] : t \in timeouts}
          /\ sinceLast' = Min(sinceLast + d, Delay + 1)
    /\ UNCHANGED <<title, lastSaved, isSaving, stats, editorHTML, saveTimeoutRef,
                   localStorage, events, hist, aiVars, envVars>>

\* (mutant) the title is saved by the debounced save, not by an effect
ChangeTitleDebounced ==
    \E t \in Titles :
        /\ t # title
        /\ title' = t
        /\ HandleInput(editorHTML)
        /\ UNCHANGED <<lastSaved, localStorage, aiVars, envVars>>

\* onChange of the title field, and the title effect of the render it causes
ChangeTitle ==
    \E t \in Titles :
        /\ t # title
        /\ title' = t
        /\ localStorage' = [localStorage EXCEPT !.title = Some(t)]
        /\ UNCHANGED <<lastSaved, isSaving, stats, editorHTML, saveTimeoutRef,
                       timeouts, sinceLast, events, hist, aiVars, envVars>>

\* ------------------------------------------------- App: assistance session
UiErrorSentinel == "Error generating content. Please try again."

\* the switch of handleAiRequest
CannedInstruction(mode) ==
    CASE mode = "summarize" -> "Summarize this text concisely."
      [] mode = "fix" -> "Fix grammar, spelling, and punctuation errors."
      [] mode = "tone" -> "Rewrite this to sound more professional and concise."
      [] mode = "continue" -> "Continue writing naturally based on the context."
      [] OTHER -> "Help me write."

\* (mutant) the prompt goes out as typed
PromptAsTyped(prompt, mode) == prompt

\* promptToSend
PromptToSend(prompt, mode) == IF prompt = "" THEN CannedInstruction(mode) ELSE prompt

\* (mutant) no guard
NeverRejects(prompt, mode) == FALSE

\* the guard of handleAiRequest: the call returns at once
RejectsRequest(prompt, mode) == prompt = "" /\ mode = "continue"

\* try / catch / finally of handleAiRequest: the value given to setAiResponse
AiSettle(outcome) ==
    IF outcome.status = "raised" THEN Some(UiErrorSentinel) ELSE Some(outcome.value)

\* handleAiRequest(mode) with sel the current selection.  A client call that
\* ended before its await settles in the same task (no event runs between).
HandleAiRequest(mode, sel) ==
    /\ events < MaxEvents
    /\ events' = events + 1
    /\ IF RejectsRequest(aiPrompt, mode)
       THEN /\ rejected' = TRUE
            /\ UNCHANGED <<aiLoading, aiResponse, calls>>
       ELSE LET context == OrElse(sel, OrElse(InnerText(editorHTML), ""))
                start == GenerateStart(PromptToSend(aiPrompt, mode), context, mode, apiKey)
            IN /\ rejected' = rejected
               /\ IF start.outcome.status = "awaiting"
                  THEN /\ aiLoading' = TRUE
                       /\ aiResponse' = Null
                       /\ calls' = Append(calls, [mode |-> mode, aiPrompt |-> aiPrompt,
                                                  context |-> context,
                                                  request |-> start.request[1]])
                  ELSE /\ aiLoading' = FALSE
                       /\ aiResponse' = AiSettle(start.outcome)
                       /\ calls' = calls
    /\ UNCHANGED <<docVars, showAiModal, aiPrompt, envVars>>

\* the suggestions and the Generate button are rendered
SessionIdle == ~Truthy(aiResponse) /\ ~aiLoading

\* Enter in the prompt field
PromptEnter ==
    /\ showAiModal
    /\ \E sel \in Selections : HandleAiRequest("custom", sel)

\* one of the four suggestion buttons
SuggestionClick ==
    /\ showAiModal
    /\ SessionIdle
    /\ \E mode \in {"summarize", "fix", "tone", "continue"} :
         \E sel \in Selections : HandleAiRequest(mode, sel)

\* the Generate button, disabled while the prompt is empty
GenerateClick ==
    /\ showAiModal
    /\ SessionIdle
    /\ aiPrompt # ""
    /\ \E sel \in Selections : HandleAiRequest("custom", sel)

\* a client call ends and handleAiRequest resumes after its await
AiResume(i, outcome) ==
    /\ i \in DOMAIN calls
    /\ calls' = SubSeq(calls, 1, i - 1) \o SubSeq(calls, i + 1, Len(calls))
    /\ aiResponse' = AiSettle(outcome)
    /\ aiLoading' = FALSE
    /\ UNCHANGED <<docVars, showAiModal, aiPrompt, events, rejected, envVars>>

\* the backend answers
BackendResponds ==
    \E i \in DOMAIN calls : \E text \in BackendTexts : AiResume(i, GenerateReturn(text))

\* the backend call throws
BackendFails == \E i \in DOMAIN calls : AiResume(i, GenerateCatch("backend error"))

\* the Ask AI button
OpenAiModal ==
    /\ ~showAiModal
    /\ showAiModal' = TRUE
    /\ UNCHANGED <<docVars, aiPrompt, aiLoading, aiResponse, calls, events, rejected,
                   envVars>>

\* the close button of the modal
CloseAiModal ==
    /\ showAiModal
    /\ showAiModal' = FALSE
    /\ UNCHANGED <<docVars, aiPrompt, aiLoading, aiResponse, calls, events, rejected,
                   envVars>>

\* onChange of the prompt field
SetAiPrompt ==
    /\ showAiModal
    /\ \E p \in Prompts : p # aiPrompt /\ aiPrompt' = p
    /\ UNCHANGED <<docVars, showAiModal, aiLoading, aiResponse, calls, events,
                   rejected, envVars>>

\* (mutant) discarding counts as an edit of the document
DiscardAsEdit ==
    /\ showAiModal
    /\ Truthy(aiResponse)
    /\ aiResponse' = Null
    /\ HandleInput(editorHTML)
    /\ UNCHANGED <<title, lastSaved, localStorage, showAiModal, aiPrompt, aiLoading,
                   calls, rejected, envVars>>

\* the Discard button of the response preview
Discard ==
    /\ showAiModal
    /\ Truthy(aiResponse)
    /\ aiResponse' = Null
    /\ UNCHANGED <<docVars, showAiModal, aiPrompt, aiLoading, calls, events, rejected,
                   envVars>>

\* (mutant) the text is inserted and handleInput is not called
InsertAiContentNoSave ==
    /\ showAiModal
    /\ Truthy(aiResponse)
    /\ events < MaxEvents
    /\ events' = events + 1
    /\ editorHTML' = InsertText(editorHTML, aiResponse[1])
    /\ aiResponse' = Null
    /\ aiPrompt' = ""
    /\ showAiModal' = FALSE
    /\ UNCHANGED <<title, saveVars, stats, localStorage, sinceLast, hist, aiLoading,
                   calls, rejected, envVars>>

\* insertAiContent: the Insert button of the response preview
InsertAiContent ==
    /\ showAiModal
    /\ Truthy(aiResponse)
    /\ HandleInput(InsertText(editorHTML, aiResponse[1]))
    /\ aiResponse' = Null
    /\ aiPrompt' = ""
    /\ showAiModal' = FALSE
    /\ UNCHANGED <<title, lastSaved, localStorage, aiLoading, calls, rejected, envVars>>

Next ==
    \/ EditorInput
    \/ Format
    \/ TimerFires
    \/ Tick
    \/ ChangeTitle
    \/ Reload
    \/ OpenAiModal
    \/ CloseAiModal
    \/ SetAiPrompt
    \/ PromptEnter
    \/ SuggestionClick
    \/ GenerateClick
    \/ BackendResponds
    \/ BackendFails
    \/ Discard
    \/ InsertAiContent

Spec == Init /\ [][Next]_vars

\* the browser lets time pass and runs the callback of a timeout that is due
SpecLive == Init /\ [][Next]_vars /\ WF_vars(Tick) /\ WF_vars(TimerFires)

\* the same component over a store whose setItem may throw
NextQuota == Next \/ TimerFiresThrows

SpecQuota == Init /\ [][NextQuota]_vars

\* ----------------------------------------- load of a stored document
\* characters of a text: a letter and two kinds of whitespace
TextChars == {"a", " ", "\n"}

\* the texts of at most n characters
RECURSIVE TextsUpTo(_)
TextsUpTo(n) ==
    IF n = 0 THEN {""}
    ELSE LET shorter == TextsUpTo(n - 1)
         IN shorter \cup {s \o c : s \in shorter, c \in TextChars}

\* the component before its effects ran (the values of useState, an empty
\* editing surface), over a store that holds a document with any text
InitStats ==
    /\ title = DefaultTitle
    /\ lastSaved = 0
    /\ isSaving = FALSE
    /\ showAiModal = FALSE
    /\ editorHTML = ""
    /\ stats = [words |-> 0, chars |-> 0]
    /\ saveTimeoutRef = 0
    /\ aiPrompt = ""
    /\ aiLoading = FALSE
    /\ aiResponse = Null
    /\ \E text \in TextsUpTo(MaxTextLen) :
         localStorage = [content |-> Some("<p>" \o text \o "</p>"), title |-> Null]
    /\ timeouts = {}
    /\ calls = << >>
    /\ hist = NoHist
    /\ sinceLast = Delay + 1
    /\ events = 0
    /\ rejected = FALSE
    /\ apiKey \in ApiKeys
    /\ gen = GenIdle
    /\ stream = StreamIdle

\* the load effect runs updateStats on the text of the stored document
SpecStats == InitStats /\ [][Reload]_vars

\* ------------------------------ direct call of generateWritingAssistance
InitGen ==
    /\ InitApp
    /\ apiKey \in ApiKeys
    /\ \E p \in Prompts, c \in Contexts, m \in Modes :
         gen = [GenIdle EXCEPT !.prompt = p, !.context = c, !.mode = m]
    /\ stream = StreamIdle

\* the call runs to its await, or to its end when getAI throws
GenCall ==
    /\ gen.status = "idle"
    /\ LET start == GenerateStart(gen.prompt, gen.context, gen.mode, apiKey)
       IN gen' = [gen EXCEPT !.status = start.outcome.status,
                             !.value = start.outcome.value,
                             !.backend = IF start.request = Null THEN @
                                         ELSE Append(@, start.request[1])]
    /\ UNCHANGED <<appVars, apiKey, stream>>

\* generateContent resolves
GenBackendReturns ==
    /\ gen.status = "awaiting"
    /\ \E text \in BackendTexts :
         gen' = [gen EXCEPT !.status = GenerateReturn(text).status,
                            !.value = GenerateReturn(text).value]
    /\ UNCHANGED <<appVars, apiKey, stream>>

\* generateContent rejects
GenBackendThrows ==
    /\ gen.status = "awaiting"
    /\ gen' = [gen EXCEPT !.status = GenerateCatch("backend error").status,
                          !.value = GenerateCatch("backend error").value,
                          !.threw = TRUE]
    /\ UNCHANGED <<appVars, apiKey, stream>>

NextGen == GenCall \/ GenBackendReturns \/ GenBackendThrows

SpecGen == InitGen /\ [][NextGen]_vars

\* -------------------------------- direct call of streamWritingAssistance
InitStream ==
    /\ InitApp
    /\ apiKey \in ApiKeys
    /\ gen = GenIdle
    /\ \E p \in Prompts, c \in Contexts :
         stream = [StreamIdle EXCEPT !.prompt = p, !.context = c]

\* (mutant) the error is caught and nothing is reported
StreamCatchSilent(st) == [st EXCEPT !.status = "done"]

\* the catch block of streamWritingAssistance
StreamCatch(st) ==
    [st EXCEPT !.onChunk = Append(@, StreamErrorSentinel), !.status = "done"]

\* (mutant) the chunk goes in front of those delivered before it
StreamLoopBodyPrepends(st, text) ==
    [st EXCEPT !.received = Append(@, text),
               !.onChunk = IF text # "" THEN <<text>> \o @ ELSE @]

\* the body of the for await loop, for a chunk with the text given
StreamLoopBody(st, text) ==
    [st EXCEPT !.received = Append(@, text),
               !.onChunk = IF text # "" THEN Append(@, text) ELSE @]

\* the call runs to its first await, or to its end when getAI throws
StreamCall ==
    /\ stream.status = "idle"
    /\ stream' = IF GetAIThrows(apiKey)
                 THEN StreamCatch(stream)
                 ELSE [stream EXCEPT
                         !.status = "opening",
                         !.backend = Append(@, GenerateContentStreamRequest(
                                                   stream.prompt, stream.context))]
    /\ UNCHANGED <<appVars, apiKey, gen>>

\* generateContentStream resolves with the stream
StreamOpens ==
    /\ stream.status = "opening"
    /\ stream' = [stream EXCEPT !.status = "streaming"]
    /\ UNCHANGED <<appVars, apiKey, gen>>

\* the stream yields a chunk
StreamChunk ==
    /\ stream.status = "streaming"
    /\ Len(stream.received) < MaxChunks
    /\ \E text \in ChunkTexts : stream' = StreamLoopBody(stream, text)
    /\ UNCHANGED <<appVars, apiKey, gen>>

\* the stream ends
StreamEnds ==
    /\ stream.status = "streaming"
    /\ stream' = [stream EXCEPT !.status = "done"]
    /\ UNCHANGED <<appVars, apiKey, gen>>

\* generateContentStream rejects, or the stream throws between chunks
StreamThrows ==
    /\ stream.status \in {"opening", "streaming"}
    /\ stream' = [StreamCatch(stream) EXCEPT !.threw = TRUE]
    /\ UNCHANGED <<appVars, apiKey, gen>>

NextStream == StreamCall \/ StreamOpens \/ StreamChunk \/ StreamEnds \/ StreamThrows

SpecStream == InitStream /\ [][NextStream]_vars

\* ------------------------------------------------------------- properties

\* C1: a burst of N >= 1 edits, each less than Delay after the one before,
\* is followed by exactly one write of the content key, of the markup as of
\* the last edit of the burst: none while the burst goes on, one once more
\* than Delay has passed since its last edit.
C1_BurstOneWrite ==
    hist.n >= 1 =>
        /\ sinceLast < Delay => hist.writes = 0
        /\ sinceLast > Delay =>
             /\ hist.writes = 1
             /\ localStorage.content = Some(hist.html)

\* a burst of two or more edits is over and was written
C1_Witness ==
    /\ hist.n >= 2
    /\ sinceLast > Delay
    /\ hist.writes = 1
    /\ localStorage.content = Some(hist.html)

\* C2: of N edits that each come more than Delay after the one before, each
\* is followed by one write of the content key before the next: after the
\* k-th of them k - 1 writes were made, and k once more than Delay has passed.
C2_SpacedEditsEachWritten ==
    hist.run >= 1 =>
        /\ sinceLast < Delay => hist.runWrites = hist.run - 1
        /\ sinceLast > Delay => hist.runWrites = hist.run

\* two spaced edits, two writes
C2_Witness ==
    /\ hist.run >= 2
    /\ hist.runWrites = 2
    /\ sinceLast > Delay

\* C3: a title change writes the new title to the title key in the same
\* step, pending save or not, and leaves the debounce timer, the saving flag,
\* the last-saved date and the stored content as they were.
C3_TitleWritesThrough ==
    [][ChangeTitle =>
         /\ localStorage'.title = Some(title')
         /\ localStorage'.content = localStorage.content
         /\ UNCHANGED <<timeouts, saveTimeoutRef, isSaving, lastSaved>>]_vars

\* the title was changed while a save was pending: the store holds the new
\* title, the pending timer still holds the old one
C3_Witness ==
    /\ isSaving
    /\ localStorage.title = Some(title)
    /\ \E t \in timeouts : t.title # title

\* C4: when setItem throws in the timer callback, no new last-saved date is
\* recorded and the indicator stays "Saving...".
C4_FailedSaveNotReported ==
    [][TimerFiresThrows => lastSaved' = lastSaved /\ isSaving']_vars

\* a save failed and nothing is scheduled: the indicator is stuck on
\* "Saving..." and no save was ever recorded
C4_Witness ==
    /\ isSaving
    /\ timeouts = {}
    /\ lastSaved = 0

\* a click on the Continue Writing suggestion
ContinueSubmit ==
    /\ showAiModal
    /\ SessionIdle
    /\ \E sel \in Selections : HandleAiRequest("continue", sel)

\* C5: a continue-mode submit with an empty prompt leaves the session idle
\* (loading flag and held result as they were) and sends nothing.
C5_EmptyContinueRejected ==
    [][(aiPrompt = "" /\ ContinueSubmit) =>
         /\ ~aiLoading'
         /\ aiResponse' = aiResponse
         /\ calls' = calls]_vars

\* a submit was rejected and the session is idle
C5_Witness ==
    /\ rejected
    /\ SessionIdle
    /\ calls = << >>

\* C6 (as claimed): generateWritingAssistance called with an empty prompt and
\* mode continue does not invoke the backend.
C6_EmptyContinueNotSent ==
    (gen.prompt = "" /\ gen.mode = "continue") => gen.backend = << >>

\* the task payload of a single-shot request for the context given, up to
\* the instruction
TaskPrefix(context) == "Context/Current Text: \"" \o context \o "\"\n\nTask: "

\* C7: every request the component hands to the backend carries an
\* instruction that is not empty; when the prompt field was empty it is the
\* canned instruction of the mode.
C7_InstructionNeverEmpty ==
    \A i \in DOMAIN calls :
        /\ calls[i].request.contents # TaskPrefix(calls[i].context)
        /\ calls[i].aiPrompt = "" =>
             calls[i].request.contents =
                 TaskPrefix(calls[i].context) \o CannedInstruction(calls[i].mode)

\* a custom request went out with the prompt field empty
C7_Witness ==
    \E i \in DOMAIN calls : calls[i].aiPrompt = "" /\ calls[i].mode = "custom"

\* C8: when the backend call throws, generateWritingAssistance returns the
\* apology sentinel; it never raises.
C8_FailureReturnsApology ==
    /\ gen.status # "raised"
    /\ gen.threw => gen.status = "returned" /\ gen.value = ApologySentinel

\* the backend call threw
C8_Witness == gen.threw /\ gen.status = "returned"

\* C9 (as claimed): with no credential the call raises to its caller.
C9_MissingKeyRaises ==
    (apiKey = "" /\ gen.status # "idle") => gen.status = "raised"

\* the chunk texts onChunk was called with: those that are not empty
RECURSIVE Delivered(_)
Delivered(texts) ==
    IF texts = << >> THEN << >>
    ELSE IF Head(texts) # "" THEN <<Head(texts)>> \o Delivered(Tail(texts))
    ELSE Delivered(Tail(texts))

\* C10: when the stream throws after k >= 0 chunks were delivered, onChunk
\* was called with those k chunks and then once with the error sentinel, the
\* call is over and has raised nothing.
C10_StreamFailureOneSentinel ==
    /\ stream.status # "raised"
    /\ stream.threw =>
         /\ stream.status = "done"
         /\ stream.onChunk = Append(Delivered(stream.received), StreamErrorSentinel)

\* the stream threw after a chunk was delivered
C10_Witness ==
    /\ stream.threw
    /\ Len(stream.onChunk) >= 2

\* the stream ended and nothing threw: neither getAI, nor the backend
StreamEndedClean ==
    /\ stream.status = "done"
    /\ ~stream.threw
    /\ stream.backend # << >>

\* C11 (as claimed): for a stream that ends without failure, onChunk was
\* called once per chunk received, in arrival order: its arguments are the
\* texts of the chunks received.
C11_EveryChunkDelivered ==
    StreamEndedClean => stream.onChunk = stream.received

\* C11 (amended): for a stream that ends without failure, onChunk was called
\* once per received chunk whose text is not empty, in arrival order: its
\* arguments are the texts received that are not empty.
C11_TextChunksInOrder ==
    StreamEndedClean => stream.onChunk = Delivered(stream.received)

\* a stream of two different chunks ended
C11_Witness ==
    /\ StreamEndedClean
    /\ Len(stream.onChunk) = 2
    /\ stream.onChunk[1] # stream.onChunk[2]

\* the held result is an error message: the apology of the client or the
\* message of the catch block of handleAiRequest
Errored == aiResponse \in {Some(ApologySentinel), Some(UiErrorSentinel)}

\* the session holds a result of the backend
Responded == Truthy(aiResponse) /\ ~Errored

\* C12: Insert from the responded state puts the held text into the
\* document, clears the held result and the prompt field, leaves the session
\* idle, and is an edit for the autosave: the saving flag is set and the one
\* outstanding timer is a new one with the whole delay to run.
C12_InsertFromResponded ==
    [][(Responded /\ InsertAiContent) =>
         /\ editorHTML' = InsertText(editorHTML, aiResponse[1])
         /\ aiResponse' = Null
         /\ aiPrompt' = ""
         /\ SessionIdle'
         /\ isSaving'
         /\ sinceLast' = 0
         /\ timeouts' = {[id |-> saveTimeoutRef', remaining |-> Delay,
                          title |-> title]}]_vars

\* the result "r" of the backend was inserted into the empty document and
\* the save is pending
C12_Witness ==
    /\ editorHTML = "<p>r</p>"
    /\ aiResponse = Null
    /\ aiPrompt = ""
    /\ ~showAiModal
    /\ isSaving
    /\ sinceLast = 0

\* C13 (as claimed): Insert takes effect from the responded state only; in
\* any other state of the session (idle, loading, errored) it leaves the
\* document, the held result and the autosave state as they were.
C13_InsertOnlyFromResponded ==
    [][(~Responded /\ InsertAiContent) =>
         UNCHANGED <<editorHTML, aiResponse, saveVars>>]_vars

\* C14: Discard, from responded or errored, clears the held result and leaves
\* the session idle; the document, the store and the autosave (saving flag,
\* timer, last-saved date) are as they were.
C14_DiscardFrame ==
    [][Discard =>
         /\ Responded \/ Errored
         /\ aiResponse' = Null
         /\ SessionIdle'
         /\ UNCHANGED <<editorHTML, stats, title, localStorage, saveVars>>]_vars

\* a result was discarded: of two overlapping requests one has settled, its
\* result is no longer held, and no insert was made (two calls of
\* handleAiRequest are all the events so far)
C14_Witness ==
    /\ showAiModal
    /\ Len(calls) = 1
    /\ ~aiLoading
    /\ aiResponse = Null
    /\ events = 2

\* C15 (as claimed): at most one assistance request is in flight at any
\* time.
C15_OneInFlight == Len(calls) <= 1

\* the text has no character that is not whitespace
AllWhitespace(text) ==
    \A i \in 1..Len(text) : IsWhitespace(SubSeq(text, i, i))

\* the maximal runs of non-whitespace characters of the text, counted by
\* their first characters
WordRuns(text) ==
    Cardinality({i \in 1..Len(text) :
                   /\ ~IsWhitespace(SubSeq(text, i, i))
                   /\ i = 1 \/ IsWhitespace(SubSeq(text, i - 1, i - 1))})

\* C16: for the text T of the editing surface, the word count is 0 iff T
\* is empty once trimmed of whitespace, it is the number of maximal runs of
\* non-whitespace characters of T, and the character count is the length
\* of T.
C16_StatsOfText ==
    editorHTML # "" =>
        LET T == InnerText(editorHTML)
        IN /\ stats.words = 0 <=> AllWhitespace(T)
           /\ stats.words = WordRuns(T)
           /\ stats.chars = Len(T)

\* two words after a leading space were counted
C16_Witness ==
    /\ editorHTML = "<p> a a</p>"
    /\ stats = [words |-> 2, chars |-> 4]

\* C17 (as claimed): a load restores the stored title and the stored content
\* whenever their keys are in the store, the empty string included; the
\* editing surface starts as an empty paragraph only when no content is
\* stored.
C17_LoadRestoresStored ==
    [][Reload =>
         /\ localStorage.title # Null => title' = localStorage.title[1]
         /\ localStorage.content # Null => editorHTML' = localStorage.content[1]
         /\ localStorage.content = Null => editorHTML' = EmptyParagraph]_vars

\* the oldest of several requests in flight settles (it differs from each
\* newer one, so the step is its own and not a newer one's)
OldestSettles ==
    /\ Len(calls) >= 2
    /\ \A i \in 2..Len(calls) : calls[i] # calls[1]
    /\ calls' = Tail(calls)

\* C18 (as claimed): the result of a superseded request does not overwrite
\* the state of a newer one: when it arrives while a newer request is in
\* flight, the loading flag stays set and the held result is not changed.
C18_NoStaleOverwrite ==
    [][OldestSettles => aiLoading' /\ aiResponse' = aiResponse]_vars

\* the modal was closed while a request was loading, and is still closed:
\* loading starts with the modal open only, and no result is held (nor can
\* one be inserted) while the flag is set
ClosedWhileLoading == ~showAiModal /\ aiLoading

\* C19 (as claimed): the result of a request that was loading when the
\* interface was closed is not displayed afterwards: when it arrives it does
\* not become a held result for the preview to show once the modal is open
\* again.
C19_ClosedResultSwallowed ==
    [][ClosedWhileLoading => ~Truthy(aiResponse')]_vars

\* C20: at most one debounce timer is outstanding, and it is the one
\* saveTimeoutRef names, the last one set: a timer that was cancelled is not
\* there to fire.
C20_OneTimerOutstanding ==
    /\ Cardinality(timeouts) <= 1
    /\ \A t \in timeouts : t.id = saveTimeoutRef

\* a second edit came while the timer of the first was running: one timer
\* is outstanding
C20_Witness ==
    /\ hist.n >= 2
    /\ sinceLast < Delay
    /\ Cardinality(timeouts) = 1

\* the save is done: the indicator is clean, a date is recorded and the
\* store holds the content of the editing surface
SavedClean ==
    /\ ~isSaving
    /\ lastSaved # 0
    /\ localStorage.content = Some(editorHTML)

\* the page was loaded again and nothing was edited or saved since: the
\* component that was pending is gone
FreshlyLoaded == ~isSaving /\ lastSaved = 0

\* C21: whenever a save is pending, the timer eventually fires, the content
\* of the editing surface is written to the store, the date is recorded and
\* the indicator is clean again, unless the page is loaded again first; the
\* component is never pending forever.
C21_PendingSaveCompletes == isSaving ~> (SavedClean \/ FreshlyLoaded)

\* a pending save was completed: the content written is that of the last
\* edit
C21_Witness ==
    /\ SavedClean
    /\ hist.n >= 1
    /\ hist.writes = 1
    /\ timeouts = {}

\* C22 (as claimed): after any interleaving of edits, title changes and
\* timer firings the title key of the store holds the title last set.
C22_StoredTitleIsCurrent == localStorage.title = Some(title)

=============================================================================
